---- MODULE Spec2Model ----
(***************************************************************************)
(* Model of the kubevirt web-ui operator's reconcile pass                  *)
(* (pkg/controller/kwebui/kwebui_controller.go).                           *)
(*                                                                         *)
(* The cluster (the KWebUI resource, the "console" Deployment), the /tmp   *)
(* directory and one reconcile pass (its program counter and locals) are   *)
(* the state.  Every call the pass makes on the outside world is recorded  *)
(* in `trace`, which is reset when a pass starts.  Strings the code parses *)
(* (versions, image references) are sequences of one-character strings.    *)
(***************************************************************************)
EXTENDS Integers, Sequences, FiniteSets, TLC

\* ------------------------------------------------------------------ bounds

\* Number of distinct suffixes unique() can return (the random ones and the
\* literal "abcde" alike: its callers cannot tell them apart).
NumSuffix == 1

\* ------------------------------------------------------- program constants

WebUIContainerName == "console"

PhaseFreshProvision == "PROVISION_STARTED"
PhaseProvisioned == "PROVISIONED"
PhaseProvisionFailed == "PROVISION_FAILED"
\* The finished phase used where the started phase is meant.
PhaseDeprovision_Finished == "DEPROVISIONED"
PhaseDeprovision == "DEPROVISION_STARTED"
PhaseDeprovisioned == "DEPROVISIONED"
PhaseDeprovisionFailed == "DEPROVISION_FAILED"
PhaseOtherError == "OTHER_ERROR"
PhaseNoDeployment == "NOT_DEPLOYED"
PhaseOwnerReferenceFailed == "OWNER_REFERENCE_FAILED"

Phases ==
  { PhaseFreshProvision, PhaseProvisioned, PhaseProvisionFailed,
    PhaseDeprovision, PhaseDeprovisioned, PhaseDeprovisionFailed,
    PhaseOtherError, PhaseNoDeployment, PhaseOwnerReferenceFailed }

\* Status messages (the text after formatting is abbreviated to its fixed part).
MsgNone == ""
MsgTarget == "Target version: %s"
MsgProvisioned == "Provision finished."
MsgProvisionFailed == "Failed to provision Kubevirt Web UI."
MsgDeprovisioned == "Deprovision finished."
MsgDeprovisionFailed == "Failed to deprovision Kubevirt Web UI."
MsgRetrieveFailed == "Failed to retrieve kubevirt-web-ui Deployment object."
MsgCannotRead == "Can not read deployed container version."
MsgNothingToDo == "Existing version conform the requested one: %s. Nothing to do."
MsgOwnerGetFailed == "Failed to retrieve the just created kubevirt-web-ui Deployment object to set owner reference."
MsgOwnerSetFailed == "Failed to set Operator CR as the owner of the kubevirt-web-ui Deployment object."

\* ------------------------------------------------------------------ strings

\* A string is a sequence of one-character strings.

V1 == <<"v", "1">>
V2 == <<"v", "2">>
N1 == <<"1">>
Empty == <<>>
DefaultDockerTag == <<"v", "1", ".", "4">>
Repo == <<"q", "/", "c">>

Max(S) == CHOOSE x \in S : \A y \in S : y <= x

\* strings.LastIndex: 0-based index of the last occurrence of a in value, or -1
LastIndex(value, a) ==
  LET hits == { p \in 0..(Len(value) - Len(a)) :
                  SubSeq(value, p + 1, p + Len(a)) = a }
  IN IF hits = {} THEN -1 ELSE Max(hits)

\* strings.TrimPrefix
TrimPrefix(s, prefix) ==
  IF Len(s) >= Len(prefix) /\ SubSeq(s, 1, Len(prefix)) = prefix
  THEN SubSeq(s, Len(prefix) + 1, Len(s))
  ELSE s

afterLast(value, a) ==
  LET pos == LastIndex(value, a)
      adjustedPos == pos + Len(a)
  IN IF pos = -1 THEN Empty
     ELSE IF adjustedPos >= Len(value) THEN Empty
     ELSE SubSeq(value, adjustedPos + 1, Len(value))

def(s, defVal) == IF s = Empty THEN defVal ELSE s

\* ------------------------------------------------------------ cluster data

\* Values of KWebUI.Spec.Version the owner of the resource may write.
Versions == { Empty, N1, V1, V2 }

Image(tag) == Repo \o <<":">> \o tag

\* Image references a container of the Deployment may carry: tagged ones,
\* one without any tag, one ending in the colon, one whose tag is just "v".
Images ==
  { Image(N1), Image(V1), Image(V2), Image(<<"v">>), Image(Empty), Repo }

Container(name, image) == [Name |-> name, Image |-> image]

\* Spec.Template.Spec.Containers of the Deployments the cluster may hold.
ContainerLists ==
  { <<Container(WebUIContainerName, i)>> : i \in Images }
    \cup { <<Container("sidecar", Image(V2)), Container(WebUIContainerName, Image(V1))>>,
           <<Container("sidecar", Image(V1))>>,
           <<>> }

\* The Deployment "console" of the namespace; owner is its controller reference.
NoDeployment == [found |-> FALSE, Containers |-> <<>>, owner |-> FALSE]
Deployment(cs, o) == [found |-> TRUE, Containers |-> cs, owner |-> o]
Deployments == { NoDeployment } \cup { Deployment(cs, FALSE) : cs \in ContainerLists }

\* ------------------------------------------------------------ /tmp files

Suffixes == 1..NumSuffix
NoFile == [kind |-> "none", suffix |-> 0]
ConfigFile(u) == [kind |-> "config", suffix |-> u]          \* ConfigFilePattern
InventoryFile(u) == [kind |-> "inventory", suffix |-> u]    \* InventoryFilePattern

\* --------------------------------------------------------------- the trace

Ev(op, arg, msg, out, file) ==
  [op |-> op, arg |-> arg, msg |-> msg, out |-> out, file |-> file]
\* A call of updateStatus, and whether the phase reached the resource.
StatusEv(phase, msg, c, outcome) ==
  Ev("status", phase, msg, IF c.exists /\ outcome = "ok" THEN "written" ELSE "dropped", NoFile)
\* An external command, the workflow action it serves, how it ended, its KUBECONFIG.
CmdEv(cmd, act, outcome, kubeconfig) == Ev("cmd", cmd, act, outcome, kubeconfig)
CreateEv(file) == Ev("create", file.kind, "", "", file)
RemoveEv(file) == Ev("remove", file.kind, "", "", file)
\* A client.Get and its answer: "found", "not found" or "error".
GetEv(what, answer) == Ev("get", what, "", answer, NoFile)
\* The call of runPlaybookWithSetup and its return with an error value.
WorkflowEv(act) == Ev("workflow", act, "", "", NoFile)
WorkflowReturnEv(act, e) == Ev("workflow return", act, "", e, NoFile)
\* controllerutil.SetControllerReference and how it ended.
LinkEv(outcome) == Ev("SetControllerReference", "", "", outcome, NoFile)
\* rest.InClusterConfig with its answer, and the file name unique() gave.
ConfigEv(answer, file) == Ev("InClusterConfig", "", "", answer, file)
\* An os.Create that failed, and how the error-checked write of a file ended.
CreateFailedEv(kind) == Ev("create failed", kind, "", "", NoFile)
WriteEv(file, outcome) == Ev("write", file.kind, "", outcome, file)

\* ------------------------------------------------------------------- state

VARIABLES
  cr,            \* the KWebUI resource in the cluster
  dep,           \* the Deployment "console" in the cluster
  files,         \* the files that exist in /tmp
  pc,            \* position of the reconcile pass
  instance,      \* Reconcile's copy of the resource (its Spec.Version)
  deployment,    \* Reconcile's copy of the Deployment
  action,        \* the action argument of runPlaybookWithSetup
  upgrade,       \* deprovision was called at line 226 (not at line 220)
  configFile,    \* loginClient's / runPlaybookWithSetup's configFile
  inventoryFile, \* runPlaybookWithSetup's inventoryFile
  deferred,      \* the removeFile calls runPlaybookWithSetup has deferred
  err,           \* the error value being returned
  result,        \* what Reconcile returned to the dispatcher
  trace,         \* the outside calls of the current pass, in order
  ref,           \* a reference pass kept for comparison (used by SpecReplay only)
  rc             \* one runCommand call seen from inside (used by SpecRunCommand only)

vars ==
  << cr, dep, files, pc, instance, deployment, action, upgrade, configFile,
     inventoryFile, deferred, err, result, trace, ref, rc >>

locals == << instance, deployment, action, upgrade, configFile, inventoryFile, deferred >>

NoCR == [exists |-> FALSE, Version |-> Empty, Phase |-> "", Message |-> ""]

\* No reference pass is kept, no runCommand call is looked into.
NoRef == [run |-> 0]
NoCommand == [main |-> "none"]

\* The cluster and the controller when the controller starts.
InitPass ==
  /\ cr \in { NoCR } \cup { [exists |-> TRUE, Version |-> v, Phase |-> "", Message |-> ""] : v \in Versions }
  /\ dep \in Deployments
  /\ files = {}
  /\ pc = "idle"
  /\ instance = Empty
  /\ deployment = NoDeployment
  /\ action = ""
  /\ upgrade = FALSE
  /\ configFile = NoFile
  /\ inventoryFile = NoFile
  /\ deferred = <<>>
  /\ err = "nil"
  /\ result = "none"
  /\ trace = <<>>

Init ==
  /\ InitPass
  /\ ref = NoRef
  /\ rc = NoCommand

\* -------------------------------------------------------- status reporter

StatusOutcomes == { "ok", "get failed", "update failed" }

\* updateStatus: the resource after the call, whose Get or Update may fail.
updateStatus(c, phase, msg, outcome) ==
  IF ~c.exists \/ outcome = "get failed" THEN c
  ELSE IF outcome = "update failed" THEN c
  ELSE [c EXCEPT !.Phase = phase, !.Message = msg]

\* ------------------------------------------------------------ pass helpers

Result(e) == IF e = "nil" THEN "nil" ELSE "error"

\* Reconcile returning no error whatever went wrong.
ReturnFromPass_ErrorDropped(e) ==
  /\ pc' = "done"
  /\ err' = "nil"
  /\ result' = "nil"

\* Reconcile returns (reconcile.Result{}, e) to the dispatcher.
ReturnFromPass(e) ==
  /\ pc' = "done"
  /\ err' = e
  /\ result' = Result(e)

GetOutcomes == { "ok", "error" }

\* ------------------------------------------------------------- Reconcile

\* The not-found test of line 110 left out.
resourceGone_NotTested(c) == FALSE

\* Reconcile, lines 108-115: the Get of the resource answers not found.
resourceGone(c) == ~c.exists

\* Reconcile, lines 98-136: fetch the resource, fetch the Deployment, dispatch.
Reconcile ==
  /\ pc = "idle"
  /\ UNCHANGED << ref, rc >>
  /\ \E g1 \in GetOutcomes, g2 \in GetOutcomes, s \in StatusOutcomes :
       IF g1 = "error"
       THEN /\ trace' = <<GetEv("KWebUI", "error")>>
            /\ ReturnFromPass("get KWebUI failed")
            /\ UNCHANGED << cr, instance, deployment >>
       ELSE IF resourceGone(cr)
       THEN /\ trace' = <<GetEv("KWebUI", "not found")>>
            /\ ReturnFromPass("nil")
            /\ UNCHANGED << cr, instance, deployment >>
       ELSE /\ instance' = cr.Version
            /\ IF g2 = "error"
               THEN /\ trace' = << GetEv("KWebUI", "found"), GetEv("Deployment", "error"),
                                   StatusEv(PhaseOtherError, MsgRetrieveFailed, cr, s) >>
                    /\ cr' = updateStatus(cr, PhaseOtherError, MsgRetrieveFailed, s)
                    /\ ReturnFromPass("get Deployment failed")
                    /\ UNCHANGED deployment
               ELSE /\ trace' = << GetEv("KWebUI", "found"),
                                   GetEv("Deployment", IF dep.found THEN "found" ELSE "not found") >>
                    /\ deployment' = dep
                    /\ pc' = IF dep.found THEN "reconcileExistingDeployment"
                                          ELSE "freshProvision"
                    /\ UNCHANGED << cr, err, result >>
  /\ UNCHANGED << dep, files, action, upgrade, configFile, inventoryFile, deferred >>

\* The test of line 156 left out.
nothingToProvision_Missing(version) == FALSE

\* freshProvision, line 156: removal is requested and nothing is deployed.
nothingToProvision(version) == version = Empty

\* freshProvision, lines 155-165: up to the call of runPlaybookWithSetup.
freshProvision ==
  /\ pc = "freshProvision"
  /\ UNCHANGED << ref, rc >>
  /\ \E s \in StatusOutcomes :
       IF nothingToProvision(instance)
       THEN /\ cr' = updateStatus(cr, PhaseNoDeployment, MsgNone, s)
            /\ trace' = Append(trace, StatusEv(PhaseNoDeployment, MsgNone, cr, s))
            /\ ReturnFromPass("nil")
            /\ UNCHANGED action
       ELSE /\ cr' = updateStatus(cr, PhaseFreshProvision, MsgTarget, s)
            /\ trace' = trace \o << StatusEv(PhaseFreshProvision, MsgTarget, cr, s),
                                      WorkflowEv("provision") >>
            /\ action' = "provision"
            /\ pc' = "loginClient"
            /\ UNCHANGED << err, result >>
  /\ UNCHANGED << dep, files, instance, deployment, upgrade, configFile,
                  inventoryFile, deferred >>

\* deprovision, lines 175-178: up to the call of runPlaybookWithSetup.
deprovision ==
  /\ pc = "deprovision"
  /\ UNCHANGED << ref, rc >>
  /\ \E s \in StatusOutcomes :
       /\ cr' = updateStatus(cr, PhaseDeprovision, MsgNone, s)
       /\ trace' = trace \o << StatusEv(PhaseDeprovision, MsgNone, cr, s),
                                 WorkflowEv("deprovision") >>
  /\ action' = "deprovision"
  /\ pc' = "loginClient"
  /\ UNCHANGED << dep, files, instance, deployment, upgrade, configFile,
                  inventoryFile, deferred, err, result >>

\* Index of the first container named WebUIContainerName, 0 when there is none.
FirstWebUIContainer(containers) ==
  LET hits == { i \in 1..Len(containers) : containers[i].Name = WebUIContainerName }
  IN IF hits = {} THEN 0 ELSE CHOOSE i \in hits : \A j \in hits : i <= j

\* The loop with the empty-version test of line 196 left to the test after it.
existingVersion_TestAfterLoop(d) ==
  LET i == FirstWebUIContainer(d.Containers)
      tag == IF i = 0 THEN Empty ELSE afterLast(d.Containers[i].Image, <<":">>)
  IN [version |-> TrimPrefix(tag, <<"v">>), failed |-> FALSE]

\* The loop returning its error for every empty version, found container or not.
existingVersion_AlwaysFails(d) ==
  LET i == FirstWebUIContainer(d.Containers)
      tag == IF i = 0 THEN Empty ELSE afterLast(d.Containers[i].Image, <<":">>)
      ver == TrimPrefix(tag, <<"v">>)
  IN [version |-> ver, failed |-> (ver = Empty)]

\* reconcileExistingDeployment, lines 189-202: the version of the deployed
\* container, and whether the loop returned the "failed to read" error.
existingVersion(d) ==
  LET i == FirstWebUIContainer(d.Containers)
      tag == IF i = 0 THEN Empty ELSE afterLast(d.Containers[i].Image, <<":">>)
      ver == TrimPrefix(tag, <<"v">>)
  IN [version |-> ver, failed |-> (i # 0 /\ ver = Empty)]

\* The "deprovision only" test left out: every difference is an upgrade.
deprovisionOnly_Missing(version) == FALSE

\* reconcileExistingDeployment, line 219: deprovision only.
deprovisionOnly(version) == version = Empty

\* reconcileExistingDeployment, lines 188-232: up to the call it ends in.
reconcileExistingDeployment ==
  /\ pc = "reconcileExistingDeployment"
  /\ UNCHANGED << ref, rc >>
  /\ LET ev == existingVersion(deployment)
     IN \E s \in StatusOutcomes :
       IF ev.failed
       THEN /\ ReturnFromPass("failed to read existing image tag")
            /\ UNCHANGED << cr, trace, upgrade >>
       ELSE IF ev.version = Empty
       THEN /\ cr' = updateStatus(cr, PhaseOtherError, MsgCannotRead, s)
            /\ trace' = Append(trace, StatusEv(PhaseOtherError, MsgCannotRead, cr, s))
            /\ ReturnFromPass("nil")
            /\ UNCHANGED upgrade
       ELSE IF instance = ev.version
       THEN /\ cr' = updateStatus(cr, PhaseProvisioned, MsgNothingToDo, s)
            /\ trace' = Append(trace, StatusEv(PhaseProvisioned, MsgNothingToDo, cr, s))
            /\ ReturnFromPass("nil")
            /\ UNCHANGED upgrade
       ELSE /\ upgrade' = ~deprovisionOnly(instance)
            /\ pc' = "deprovision"
            /\ UNCHANGED << cr, trace, err, result >>
  /\ UNCHANGED << dep, files, instance, deployment, action, configFile,
                  inventoryFile, deferred >>

\* ------------------------------------------------- the provisioning workflow

CommandOutcomes == { "ok", "start failed", "exit non-zero" }

\* runCommand with the result of command.Wait() dropped.
runCommand_WaitIgnored(outcome) ==
  IF outcome = "start failed" THEN "Execution failed" ELSE "nil"

\* runCommand, lines 358-377: the error it returns for an outcome of the child.
runCommand(outcome) ==
  IF outcome = "start failed" THEN "Execution failed"
  ELSE IF outcome = "exit non-zero" THEN "Execution failed (wait)"
  ELSE "nil"

\* unique, lines 427-433: a random suffix, or the literal when rand.Read fails.
unique == Suffixes

\* runPlaybookWithSetup returns e: its deferred calls run next.
ReturnFromSetup(e) ==
  /\ pc' = "runPlaybookWithSetup return"
  /\ err' = e

\* loginClient, lines 235-243: the in-cluster config and the file name.
loginClient ==
  /\ pc = "loginClient"
  /\ UNCHANGED << ref, rc >>
  /\ \E cfg \in GetOutcomes, u \in unique :
       IF cfg = "error"
       THEN /\ ReturnFromSetup("no in-cluster config")
            /\ trace' = Append(trace, ConfigEv("error", NoFile))
            /\ UNCHANGED configFile
       ELSE /\ configFile' = ConfigFile(u)
            /\ trace' = Append(trace, ConfigEv("found", ConfigFile(u)))
            /\ pc' = "oc login"
            /\ UNCHANGED err
  /\ UNCHANGED << cr, dep, files, instance, deployment, action, upgrade,
                  inventoryFile, deferred, result >>

\* loginClient, lines 245-256: "oc login" writes the KUBECONFIG file.
ocLogin ==
  /\ pc = "oc login"
  /\ UNCHANGED << ref, rc >>
  /\ \E o \in CommandOutcomes :
       LET e == runCommand(o)
           creates == (o = "ok")   \* a login that succeeded saved the file
       IN /\ files' = IF creates THEN files \cup { configFile } ELSE files
          /\ trace' = trace \o << CmdEv("oc login", action, o, configFile) >>
                            \o (IF creates THEN << CreateEv(configFile) >> ELSE <<>>)
          /\ IF e # "nil"
             THEN ReturnFromSetup(e)
             ELSE pc' = "oc project" /\ UNCHANGED err
  /\ UNCHANGED << cr, dep, instance, deployment, action, upgrade, configFile,
                  inventoryFile, deferred, result >>

\* loginClient, lines 258-267, and runPlaybookWithSetup, lines 139-143.
ocProject ==
  /\ pc = "oc project"
  /\ UNCHANGED << ref, rc >>
  /\ \E o \in CommandOutcomes :
       /\ trace' = Append(trace, CmdEv("oc project", action, o, configFile))
       /\ LET e == runCommand(o)
          IN IF e # "nil"
             THEN /\ ReturnFromSetup(e)
                  /\ UNCHANGED deferred
             ELSE /\ deferred' = Append(deferred, configFile)
                  /\ pc' = "generateInventory"
                  /\ UNCHANGED err
  /\ UNCHANGED << cr, dep, files, instance, deployment, action, upgrade,
                  configFile, inventoryFile, result >>

IOOutcomes == { "ok", "create failed", "write failed" }

\* The error of the last WriteString dropped like the errors of the others.
writeFailed_Ignored(io) == FALSE

\* generateInventory, lines 299-304: the error of the last WriteString.
writeFailed(io) == io = "write failed"

\* generateInventory, lines 270-308, and runPlaybookWithSetup, lines 145-149.
generateInventory ==
  /\ pc = "generateInventory"
  /\ UNCHANGED << ref, rc >>
  /\ \E io \in IOOutcomes, u \in unique :
       LET f == InventoryFile(u)
       IN IF io = "create failed"
          THEN /\ ReturnFromSetup("Failed to write inventory file")
               /\ trace' = Append(trace, CreateFailedEv(f.kind))
               /\ UNCHANGED << files, inventoryFile, deferred >>
          ELSE /\ files' = files \cup { f }
               /\ trace' = trace \o << CreateEv(f),
                                        WriteEv(f, IF io = "ok" THEN "ok" ELSE "failed") >>
               /\ IF writeFailed(io)
                  THEN /\ ReturnFromSetup("Failed to write into the inventory file")
                       /\ UNCHANGED << inventoryFile, deferred >>
                  ELSE /\ inventoryFile' = f
                       /\ deferred' = Append(deferred, f)
                       /\ pc' = "runPlaybook"
                       /\ UNCHANGED err
  /\ UNCHANGED << cr, dep, instance, deployment, action, upgrade, configFile, result >>

\* What the playbook leaves in the cluster for the inventory written at
\* lines 283-286: apb_action and docker_tag=def(Spec.Version, "v1.4").
PlaybookEffect(act, version) ==
  IF act = "provision"
  THEN Deployment(<<Container(WebUIContainerName, Image(def(version, DefaultDockerTag)))>>, FALSE)
  ELSE NoDeployment

\* runPlaybook, lines 331-340, and runPlaybookWithSetup, lines 151-152.
runPlaybook ==
  /\ pc = "runPlaybook"
  /\ UNCHANGED << ref, rc >>
  /\ \E o \in CommandOutcomes, applied \in BOOLEAN :
       /\ dep' = IF (o = "ok") \/ (o = "exit non-zero" /\ applied)
                 THEN PlaybookEffect(action, instance)
                 ELSE dep
       /\ ReturnFromSetup(runCommand(o))
       /\ trace' = Append(trace, CmdEv("ansible-playbook", action, o, configFile))
  /\ UNCHANGED << cr, files, instance, deployment, action, upgrade, configFile,
                  inventoryFile, deferred, result >>

Reverse(q) == [i \in 1..Len(q) |-> q[Len(q) + 1 - i]]

\* removeFile, lines 392-397, for each deferred call, last deferred first.
removeFiles(fs, q) == fs \ { q[i] : i \in 1..Len(q) }

\* runPlaybookWithSetup's return: the deferred removeFile calls run, and the
\* caller (freshProvision or deprovision) goes on with the returned error.
runPlaybookWithSetupReturn ==
  /\ pc = "runPlaybookWithSetup return"
  /\ UNCHANGED << ref, rc >>
  /\ files' = removeFiles(files, deferred)
  /\ trace' = trace \o [i \in 1..Len(deferred) |-> RemoveEv(Reverse(deferred)[i])]
                     \o << WorkflowReturnEv(action, err) >>
  /\ deferred' = <<>>
  /\ configFile' = NoFile
  /\ inventoryFile' = NoFile
  /\ pc' = IF action = "provision" THEN "freshProvision result" ELSE "deprovision result"
  /\ UNCHANGED << cr, dep, instance, deployment, action, upgrade, err, result >>

\* ------------------------------------------------------- ownership linker

\* setOwnerReference, lines 310-329: the error it returns.  g is the answer
\* of the Get, sc the outcome of SetControllerReference, whose result is
\* dropped: line 321 tests the err of the Get again.
setOwnerReference(d, g, sc) ==
  IF g = "error" \/ ~d.found THEN "get Deployment failed" ELSE "nil"

\* setOwnerReference, line 320: the Deployment the cluster holds afterwards.
\* The reference is set on the fetched copy and no Update writes it back.
storedAfterSetOwnerReference(d, g, sc) == d

\* ------------------------------------------------ completion of the actions

\* The completion phases of freshProvision with the two branches swapped.
provisionCompletion_Swapped(e) ==
  IF e = "nil"
  THEN [phase |-> PhaseProvisionFailed, msg |-> MsgProvisionFailed]
  ELSE [phase |-> PhaseProvisioned, msg |-> MsgProvisioned]

\* freshProvision, lines 166-171: the status written at completion.
provisionCompletion(e) ==
  IF e = "nil"
  THEN [phase |-> PhaseProvisioned, msg |-> MsgProvisioned]
  ELSE [phase |-> PhaseProvisionFailed, msg |-> MsgProvisionFailed]

\* freshProvision, lines 166-172, and the return to the dispatcher.
freshProvisionResult ==
  /\ pc = "freshProvision result"
  /\ UNCHANGED << ref, rc >>
  /\ \E g \in GetOutcomes, sc \in GetOutcomes,
        s1 \in StatusOutcomes, s2 \in StatusOutcomes :
       IF err = "nil"
       THEN LET got == (g = "ok" /\ dep.found)
                oe == setOwnerReference(dep, g, sc)
                c1 == IF oe # "nil"
                      THEN updateStatus(cr, PhaseOwnerReferenceFailed, MsgOwnerGetFailed, s1)
                      ELSE cr
                t1 == trace
                        \o << GetEv("Deployment for owner reference",
                                    IF got THEN "found"
                                    ELSE IF g = "error" THEN "error" ELSE "not found") >>
                        \o (IF got THEN << LinkEv(sc) >> ELSE <<>>)
                        \o (IF oe # "nil"
                            THEN << StatusEv(PhaseOwnerReferenceFailed, MsgOwnerGetFailed, cr, s1) >>
                            ELSE <<>>)
                done == provisionCompletion(err)
            IN /\ dep' = storedAfterSetOwnerReference(dep, g, sc)
               /\ cr' = updateStatus(c1, done.phase, done.msg, s2)
               /\ trace' = Append(t1, StatusEv(done.phase, done.msg, c1, s2))
       ELSE LET done == provisionCompletion(err)
            IN /\ cr' = updateStatus(cr, done.phase, done.msg, s2)
               /\ trace' = Append(trace, StatusEv(done.phase, done.msg, cr, s2))
               /\ UNCHANGED dep
  /\ ReturnFromPass(err)
  /\ UNCHANGED << files, instance, deployment, action, upgrade, configFile,
                  inventoryFile, deferred >>

\* The caller of deprovision going on to provision whatever it returned.
provisionFollows_ErrorIgnored(up, e) == up

\* The caller going on to provision only when the resource shows that the
\* deprovision was recorded as started.
provisionFollows_PhaseRead(up, e) == up /\ e = "nil" /\ cr.Phase = PhaseDeprovision

\* reconcileExistingDeployment, lines 219-232: freshProvision follows the
\* deprovision of line 226 when that returned no error; line 220 returns.
provisionFollows(up, e) == up /\ e = "nil"

\* deprovision, lines 179-185, and the return to its caller.
deprovisionResult ==
  /\ pc = "deprovision result"
  /\ UNCHANGED << ref, rc >>
  /\ \E s \in StatusOutcomes :
       IF err = "nil"
       THEN /\ cr' = updateStatus(cr, PhaseDeprovisioned, MsgDeprovisioned, s)
            /\ trace' = Append(trace, StatusEv(PhaseDeprovisioned, MsgDeprovisioned, cr, s))
       ELSE /\ cr' = updateStatus(cr, PhaseDeprovisionFailed, MsgDeprovisionFailed, s)
            /\ trace' = Append(trace, StatusEv(PhaseDeprovisionFailed, MsgDeprovisionFailed, cr, s))
  /\ IF provisionFollows(upgrade, err)
     THEN pc' = "freshProvision" /\ UNCHANGED << err, result >>
     ELSE ReturnFromPass(err)
  /\ UNCHANGED << dep, files, instance, deployment, action, upgrade, configFile,
                  inventoryFile, deferred >>

\* ------------------------------------------------------------ the dispatcher

\* The controller takes the next request once Reconcile has returned.
PassEnd ==
  /\ pc = "done"
  /\ UNCHANGED << ref, rc >>
  /\ pc' = "idle"
  /\ instance' = Empty
  /\ deployment' = NoDeployment
  /\ action' = ""
  /\ upgrade' = FALSE
  /\ err' = "nil"
  /\ result' = "none"
  /\ trace' = <<>>
  /\ UNCHANGED << cr, dep, files, configFile, inventoryFile, deferred >>

\* The owner of the resource edits Spec.Version, creates or deletes it.
EditSpec ==
  /\ pc = "idle"
  /\ UNCHANGED << ref, rc >>
  /\ cr.exists
  /\ \E v \in Versions \ { cr.Version } : cr' = [cr EXCEPT !.Version = v]
  /\ UNCHANGED << dep, files, pc, locals, err, result, trace >>

CreateResource ==
  /\ pc = "idle"
  /\ UNCHANGED << ref, rc >>
  /\ ~cr.exists
  /\ \E v \in Versions : cr' = [exists |-> TRUE, Version |-> v, Phase |-> "", Message |-> ""]
  /\ UNCHANGED << dep, files, pc, locals, err, result, trace >>

DeleteResource ==
  /\ pc = "idle"
  /\ UNCHANGED << ref, rc >>
  /\ cr.exists
  /\ cr' = NoCR
  /\ dep' = IF dep.owner THEN NoDeployment ELSE dep
  /\ UNCHANGED << files, pc, locals, err, result, trace >>

\* Somebody else changes or deletes the Deployment.
ChangeDeployment ==
  /\ pc = "idle"
  /\ UNCHANGED << ref, rc >>
  /\ \E d \in Deployments \ { dep } : dep' = d
  /\ UNCHANGED << cr, files, pc, locals, err, result, trace >>

Next ==
  \/ Reconcile
  \/ freshProvision
  \/ reconcileExistingDeployment
  \/ deprovision
  \/ loginClient
  \/ ocLogin
  \/ ocProject
  \/ generateInventory
  \/ runPlaybook
  \/ runPlaybookWithSetupReturn
  \/ freshProvisionResult
  \/ deprovisionResult
  \/ PassEnd
  \/ EditSpec
  \/ CreateResource
  \/ DeleteResource
  \/ ChangeDeployment

Spec == Init /\ [][Next]_vars

\* ------------------------------------------- the same pass, run a second time

\* One step of a reconcile pass, whichever it is.
PassStep ==
  \/ Reconcile
  \/ freshProvision
  \/ reconcileExistingDeployment
  \/ deprovision
  \/ loginClient
  \/ ocLogin
  \/ ocProject
  \/ generateInventory
  \/ runPlaybook
  \/ runPlaybookWithSetupReturn
  \/ freshProvisionResult
  \/ deprovisionResult

IsPrefix(a, b) == Len(a) <= Len(b) /\ SubSeq(b, 1, Len(a)) = a

\* A trace without the outcomes of its updateStatus calls: what the pass
\* called and what every other call answered.
Blind(t) ==
  [i \in 1..Len(t) |-> IF t[i].op = "status" THEN [t[i] EXCEPT !.out = ""] ELSE t[i]]

AllWritten(t) == \A i \in 1..Len(t) : t[i].op = "status" => t[i].out = "written"

\* The cluster is remembered, and a first pass runs on it in which every
\* updateStatus call goes through.
InitReplay ==
  /\ InitPass
  /\ ref = [run |-> 1, cr |-> cr, dep |-> dep, files |-> files,
            blind |-> <<>>, result |-> "none", err |-> "nil"]
  /\ rc = NoCommand

ReferenceRun ==
  /\ ref.run = 1
  /\ PassStep
  /\ AllWritten(trace')

\* The first pass has returned: what it did is kept, the cluster is put back
\* as it was, and the controller is handed the same request again.
StartReplay ==
  /\ ref.run = 1
  /\ pc = "done"
  /\ ref' = [ref EXCEPT !.run = 2, !.blind = Blind(trace), !.result = result, !.err = err]
  /\ cr' = ref.cr
  /\ dep' = ref.dep
  /\ files' = ref.files
  /\ pc' = "idle"
  /\ instance' = Empty
  /\ deployment' = NoDeployment
  /\ action' = ""
  /\ upgrade' = FALSE
  /\ err' = "nil"
  /\ result' = "none"
  /\ trace' = <<>>
  /\ UNCHANGED << configFile, inventoryFile, deferred, rc >>

\* The second pass: every call other than updateStatus is answered as it was
\* in the first pass, and every updateStatus call ends as it likes.
ReplayRun ==
  /\ ref.run = 2
  /\ PassStep
  /\ IsPrefix(Blind(trace'), ref.blind)

NextReplay ==
  \/ ReferenceRun
  \/ StartReplay
  \/ ReplayRun

SpecReplay == InitReplay /\ [][NextReplay]_vars

\* ------------------------------------- pass after pass, the spec held fixed

\* Every call of the trace went well: the lookups did not fail, every
\* command started and exited with 0, the files were written, the owner
\* reference was set, every updateStatus call went through.
AllSucceeded(t) ==
  \A i \in 1..Len(t) :
    /\ t[i].op = "get" => t[i].out # "error"
    /\ t[i].op = "cmd" => t[i].out = "ok"
    /\ t[i].op = "InClusterConfig" => t[i].out = "found"
    /\ t[i].op # "create failed"
    /\ t[i].op = "write" => t[i].out = "ok"
    /\ t[i].op = "SetControllerReference" => t[i].out = "ok"
    /\ t[i].op = "status" => t[i].out = "written"

\* The resource asks for a version, some Deployment or none is there, and no
\* pass has provisioned yet.
InitConverge ==
  /\ InitPass
  /\ cr.exists
  /\ cr.Version # Empty
  /\ ref = [run |-> 3, provisioned |-> FALSE]
  /\ rc = NoCommand

\* A step of a pass in which nothing fails.
SucceedingPass ==
  /\ ref.run = 3
  /\ PassStep
  /\ AllSucceeded(trace')

\* The pass that has returned ran the provision workflow to its end and the
\* Deployment now carries the image tag the inventory asked for.
ProvisionedDesired ==
  /\ \E i \in 1..Len(trace) : trace[i] = WorkflowReturnEv("provision", "nil")
  /\ dep = PlaybookEffect("provision", cr.Version)

\* The status written by the pass, or the resync of the watch, hands the
\* same resource to Reconcile again; nobody edits the resource or the
\* Deployment in between.
Requeue ==
  /\ ref.run = 3
  /\ pc = "done"
  /\ ref' = [ref EXCEPT !.provisioned = @ \/ ProvisionedDesired]
  /\ pc' = "idle"
  /\ instance' = Empty
  /\ deployment' = NoDeployment
  /\ action' = ""
  /\ upgrade' = FALSE
  /\ err' = "nil"
  /\ result' = "none"
  /\ trace' = <<>>
  /\ UNCHANGED << cr, dep, files, configFile, inventoryFile, deferred, rc >>

NextConverge ==
  \/ SucceedingPass
  \/ Requeue

SpecConverge == InitConverge /\ [][NextConverge]_vars

\* ------------------------------------------------ runCommand, seen from inside

\* The most chunks of output the child writes to one of its streams.
MaxChunks == 2

Streams == { "stdout", "stderr" }

passVars ==
  << cr, dep, files, pc, instance, deployment, action, upgrade, configFile,
     inventoryFile, deferred, err, result, trace >>

\* runCommand, lines 359-360: the two pipes exist, nothing has been started.
\* buf: chunks written and not yet read; written: chunks written so far;
\* drain: where the pipeToLog goroutine of the stream is; closed: the read
\* ends of the pipes have been closed by command.Wait.
CommandCalled ==
  [ main |-> "Start", child |-> "not started",
    buf |-> [p \in Streams |-> 0], written |-> [p \in Streams |-> 0],
    drain |-> [p \in Streams |-> "not started"], closed |-> FALSE, err |-> "nil" ]

\* runCommand is called from loginClient (twice) and from runPlaybook.
InitRunCommand ==
  /\ cr = [exists |-> TRUE, Version |-> V1, Phase |-> "", Message |-> ""]
  /\ dep = NoDeployment
  /\ files = {}
  /\ pc \in { "oc login", "oc project", "runPlaybook" }
  /\ instance = V1
  /\ deployment = NoDeployment
  /\ action = "provision"
  /\ upgrade = FALSE
  /\ configFile = ConfigFile(1)
  /\ inventoryFile = NoFile
  /\ deferred = <<>>
  /\ err = "nil"
  /\ result = "none"
  /\ trace = <<>>
  /\ ref = NoRef
  /\ rc = CommandCalled

\* runCommand, lines 362-368: command.Start().
commandStart ==
  /\ rc.main = "Start"
  /\ \/ rc' = [rc EXCEPT !.main = "returned", !.err = "Execution failed"]
     \/ rc' = [rc EXCEPT !.main = "go stdout", !.child = "running"]
  /\ UNCHANGED << passVars, ref >>

\* runCommand, lines 370-371: the two "go pipeToLog(...)" statements.
goPipeToLog ==
  /\ \/ /\ rc.main = "go stdout"
        /\ rc' = [rc EXCEPT !.main = "go stderr", !.drain["stdout"] = "reading"]
     \/ /\ rc.main = "go stderr"
        /\ rc' = [rc EXCEPT !.main = "Wait", !.drain["stderr"] = "reading"]
  /\ UNCHANGED << passVars, ref >>

\* runCommand, lines 373-376: command.Wait() is called as soon as the
\* goroutines are launched; it returns once the child has exited, and it
\* closes the read ends of both pipes before it returns.
commandWait ==
  /\ rc.main = "Wait"
  /\ rc.child \in { "exited 0", "exited 1" }
  /\ rc' = [rc EXCEPT !.main = "returned", !.closed = TRUE,
                      !.err = IF rc.child = "exited 0" THEN "nil"
                              ELSE "Execution failed (wait)"]
  /\ UNCHANGED << passVars, ref >>

\* The child writes a chunk of output to one of its streams, or exits.
childWrites ==
  /\ rc.child = "running"
  /\ \E p \in Streams :
       /\ rc.written[p] < MaxChunks
       /\ rc' = [rc EXCEPT !.buf[p] = @ + 1, !.written[p] = @ + 1]
  /\ UNCHANGED << passVars, ref >>

childExits ==
  /\ rc.child = "running"
  /\ \E code \in { "exited 0", "exited 1" } : rc' = [rc EXCEPT !.child = code]
  /\ UNCHANGED << passVars, ref >>

\* pipeToLog, lines 342-356: one pipe.Read of the loop.  It gives a chunk
\* (logged by logPerLine), or io.EOF once the child has exited and the pipe
\* is empty, or an error once the pipe has been closed; the loop ends on both.
pipeToLog ==
  /\ \E p \in Streams :
       /\ rc.drain[p] = "reading"
       /\ IF rc.closed
          THEN rc' = [rc EXCEPT !.drain[p] = "read error"]
          ELSE IF rc.buf[p] > 0
          THEN rc' = [rc EXCEPT !.buf[p] = @ - 1]
          ELSE /\ rc.child \in { "exited 0", "exited 1" }
               /\ rc' = [rc EXCEPT !.drain[p] = "EOF"]
  /\ UNCHANGED << passVars, ref >>

NextRunCommand ==
  \/ commandStart
  \/ goPipeToLog
  \/ commandWait
  \/ childWrites
  \/ childExits
  \/ pipeToLog

SpecRunCommand == InitRunCommand /\ [][NextRunCommand]_vars

\* =============================================================== properties

\* ------------------------------------------------ what a pass did, from trace

Done == pc = "done"
Idx == 1..Len(trace)

Commands == { i \in Idx : trace[i].op = "cmd" }
Creations == { i \in Idx : trace[i].op = "create" }
Workflows == { i \in Idx : trace[i].op = "workflow" }
StatusCalls == { i \in Idx : trace[i].op = "status" }

\* The workflow for act returned with no error / with an error.
Succeeded(act) ==
  { i \in Idx : trace[i].op = "workflow return" /\ trace[i].arg = act /\ trace[i].out = "nil" }
Failed(act) ==
  { i \in Idx : trace[i].op = "workflow return" /\ trace[i].arg = act /\ trace[i].out # "nil" }

\* Anything that belongs to provisioning: the started phase, the workflow, its commands.
ProvisionSteps ==
  { i \in Idx : \/ trace[i].op = "workflow" /\ trace[i].arg = "provision"
                \/ trace[i].op = "cmd" /\ trace[i].msg = "provision"
                \/ trace[i].op = "status" /\ trace[i].arg = "PROVISION_STARTED" }

\* The last updateStatus call of the pass carried phase p, and p is what the
\* resource records when that write went through.
EndsWithPhase(p) ==
  /\ StatusCalls # {}
  /\ LET last == trace[Max(StatusCalls)]
     IN /\ last.arg = p
        /\ last.out = "written" => cr.Phase = p

\* The pass looked the Deployment up and found it / found none.
FoundDeployment ==
  Len(trace) >= 2 /\ trace[2].op = "get" /\ trace[2].arg = "Deployment" /\ trace[2].out = "found"
NoDeploymentFound ==
  Len(trace) >= 2 /\ trace[2].op = "get" /\ trace[2].arg = "Deployment" /\ trace[2].out = "not found"

\* The tag of the deployed web-ui container's image, and the deployed version:
\* the tag with a leading "v" stripped (empty when there is no such container).
DeployedTag ==
  LET named == { i \in 1..Len(deployment.Containers) : deployment.Containers[i].Name = "console" }
  IN IF named = {} THEN Empty
     ELSE afterLast(deployment.Containers[CHOOSE i \in named : \A j \in named : i <= j].Image, <<":">>)
Stripped(v) == IF Len(v) > 0 /\ Head(v) = "v" THEN Tail(v) ELSE v
DeployedVersion == Stripped(DeployedTag)
DesiredVersion == instance

\* -------------------------------------------------------------------- C1

\* C1: a pass that finds the Deployment, with the desired version equal to the
\* deployed tag once a leading "v" is stripped from both (and not empty), is a
\* no-op: no command, PROVISIONED with the nothing-to-do message, no error.
C1_EqualAfterStrippingBothIsNoOp ==
  ( /\ Done
    /\ FoundDeployment
    /\ Stripped(DesiredVersion) # Empty
    /\ Stripped(DesiredVersion) = Stripped(DeployedTag) )
  => /\ Commands = {}
     /\ EndsWithPhase("PROVISIONED")
     /\ trace[Max(StatusCalls)].msg = MsgNothingToDo
     /\ result = "nil"

\* -------------------------------------------------------------------- C2

UpgradeCase ==
  /\ FoundDeployment
  /\ DeployedVersion # Empty
  /\ DesiredVersion # Empty
  /\ DesiredVersion # DeployedVersion

\* C2: when the deployed and the desired version are both non-empty and differ,
\* no step of provisioning happens before the deprovision workflow has
\* returned without error; a pass whose deprovision workflow failed has no
\* provisioning step, and returns that workflow's error; a pass whose two
\* workflows succeeded ends with PROVISIONED.
C2_DeprovisionBeforeProvision ==
  UpgradeCase =>
    /\ \A i \in ProvisionSteps : \E j \in Succeeded("deprovision") : j < i
    /\ Done =>
         /\ \E i \in Workflows : trace[i].arg = "deprovision"
         /\ \A j \in Failed("deprovision") :
              ProvisionSteps = {} /\ result = "error" /\ err = trace[j].out
         /\ (Succeeded("deprovision") # {} /\ Succeeded("provision") # {})
              => EndsWithPhase("PROVISIONED")

C2_Witness ==
  /\ Done
  /\ UpgradeCase
  /\ Succeeded("deprovision") # {}
  /\ Succeeded("provision") # {}
  /\ cr.Phase = "PROVISIONED"

\* -------------------------------------------------------------------- C3

DeprovisionOnlyCase ==
  /\ FoundDeployment
  /\ DeployedVersion # Empty
  /\ DesiredVersion = Empty

\* C3: when the desired version is empty and a deployed version exists, the
\* pass runs one workflow, a deprovision; nothing of provisioning happens; and
\* when the workflow succeeded the pass ends with DEPROVISIONED.
C3_DeprovisionOnly ==
  DeprovisionOnlyCase =>
    /\ ProvisionSteps = {}
    /\ Cardinality(Workflows) <= 1
    /\ Done =>
         /\ Cardinality(Workflows) = 1
         /\ \A i \in Workflows : trace[i].arg = "deprovision"
         /\ \A i \in Commands : trace[i].msg = "deprovision"
         /\ Succeeded("deprovision") # {} => EndsWithPhase("DEPROVISIONED")

C3_Witness ==
  /\ Done
  /\ DeprovisionOnlyCase
  /\ Succeeded("deprovision") # {}
  /\ cr.Phase = "DEPROVISIONED"
  /\ ~dep.found

\* -------------------------------------------------------------------- C4

FreshProvisionCase == NoDeploymentFound /\ DesiredVersion # Empty

LinkAttempts ==
  { i \in Idx : trace[i].op = "get" /\ trace[i].arg = "Deployment for owner reference" }

\* C4: when the desired version is not empty and no Deployment is found, the
\* pass runs one workflow, a provision; when it succeeded, the ownership link
\* is attempted after the workflow returned and before the last status write,
\* and the pass ends with PROVISIONED.
C4_FreshProvision ==
  FreshProvisionCase =>
    /\ \A i \in Workflows : trace[i].arg = "provision"
    /\ \A i \in Commands : trace[i].msg = "provision"
    /\ Done =>
         /\ Cardinality(Workflows) = 1
         /\ Succeeded("provision") # {} =>
              /\ \E l \in LinkAttempts :
                   /\ \A w \in Succeeded("provision") : w < l
                   /\ l < Max(StatusCalls)
              /\ EndsWithPhase("PROVISIONED")
              /\ result = "nil"

C4_Witness ==
  /\ Done
  /\ FreshProvisionCase
  /\ Succeeded("provision") # {}
  /\ LinkAttempts # {}
  /\ cr.Phase = "PROVISIONED"
  /\ dep.found

\* -------------------------------------------------------------------- C5

NothingCase == NoDeploymentFound /\ DesiredVersion = Empty

\* C5: when the desired version is empty and no Deployment is found, the pass
\* is a no-op: no command, no workflow, no file created, NOT_DEPLOYED is the
\* one status written, and no error is returned.
C5_NothingToDo ==
  NothingCase =>
    /\ Commands = {}
    /\ Creations = {}
    /\ Workflows = {}
    /\ Done =>
         /\ Cardinality(StatusCalls) = 1
         /\ EndsWithPhase("NOT_DEPLOYED")
         /\ result = "nil"

C5_Witness ==
  /\ Done
  /\ NothingCase
  /\ cr.Phase = "NOT_DEPLOYED"
  /\ result = "nil"

\* -------------------------------------------------------------------- C6

CreationsOf(f) == { i \in Creations : trace[i].file = f }
RemovalsOf(f) == { i \in Idx : trace[i].op = "remove" /\ trace[i].file = f }

\* C6: every ephemeral file a pass created has been removed, once for each
\* time it was created, when the pass returns, and does not exist any more.
C6_EveryCreatedFileRemoved ==
  Done =>
    \A i \in Creations :
      /\ Cardinality(RemovalsOf(trace[i].file)) = Cardinality(CreationsOf(trace[i].file))
      /\ trace[i].file \notin files

\* ------------------------------------------------------------- C7, C8, C9

\* The ownership link step failed: the Deployment could not be fetched again,
\* or SetControllerReference failed.
LinkFailed ==
  \E i \in Idx :
    \/ i \in LinkAttempts /\ trace[i].out # "found"
    \/ trace[i].op = "SetControllerReference" /\ trace[i].out = "error"

\* setOwnerReference reported a failure: it wrote OWNER_REFERENCE_FAILED.
LinkFailureReported ==
  \E i \in StatusCalls : trace[i].arg = "OWNER_REFERENCE_FAILED"

\* C7: a pass whose provisioning workflow succeeded and whose ownership link
\* failed returns an error, and runs no deprovision after the provisioning.
C7_LinkFailureIsReturned ==
  (Done /\ Succeeded("provision") # {} /\ LinkFailed) =>
    /\ result = "error"
    /\ \A w \in Succeeded("provision"), i \in Workflows :
         trace[i].arg = "deprovision" => i < w

\* C8: a pass whose provisioning workflow succeeded and whose ownership link
\* failed sets OWNER_REFERENCE_FAILED, and that is the phase the resource
\* records at the end of the pass when the status writes went through.
C8_LinkFailureIsRecorded ==
  (Done /\ Succeeded("provision") # {} /\ LinkFailed) =>
    /\ LinkFailureReported
    /\ (\A i \in StatusCalls : trace[i].out = "written")
         => cr.Phase = "OWNER_REFERENCE_FAILED"

\* C9: after a pass whose provisioning workflow succeeded and whose ownership
\* link reported no failure, the Deployment stored in the cluster has the
\* resource as its owning controller.
C9_OwnerIsStored ==
  (Done /\ Succeeded("provision") # {} /\ LinkAttempts # {} /\ ~LinkFailureReported) =>
    dep.found /\ dep.owner

\* ------------------------------------------------------------------- C10

FailurePhase(act) == IF act = "provision" THEN "PROVISION_FAILED" ELSE "DEPROVISION_FAILED"

FailedCommands == { i \in Commands : trace[i].out # "ok" }

\* C10: a pass in which an external command failed to start or exited
\* non-zero returns an error, and ends with the failure phase of the action
\* the command belonged to.
C10_CommandFailureFailsThePass ==
  Done =>
    \A i \in FailedCommands :
      /\ result = "error"
      /\ EndsWithPhase(FailurePhase(trace[i].msg))

C10_Witness ==
  /\ Done
  /\ \E i \in FailedCommands : trace[i].out = "exit non-zero" /\ trace[i].msg = "deprovision"
  /\ cr.Phase = "DEPROVISION_FAILED"
  /\ result = "error"

\* ------------------------------------------------------------------------ C11

\* C11: status reporting never changes the outcome of a pass.  A pass that is
\* given the same cluster and the same answers to every call other than
\* updateStatus as a pass whose status writes all went through makes the same
\* calls in the same order (so the same action and the same external
\* commands) and returns the same error, however its own updateStatus calls
\* end: it always has a next step that agrees with the first pass, and when
\* it has returned, its calls and its result are those of the first pass.
C11_StatusNeverChangesTheOutcome ==
  ref.run = 2 =>
    /\ ~Done => ENABLED ReplayRun
    /\ Done => /\ Blind(trace) = ref.blind
               /\ result = ref.result
               /\ err = ref.err

\* A second pass that ran external commands and returned while one of its
\* status writes was lost.
C11_Witness ==
  /\ ref.run = 2
  /\ Done
  /\ Commands # {}
  /\ \E i \in StatusCalls : trace[i].out = "dropped"

\* ------------------------------------------------------------------ C12, C13

\* The Deployment the pass found, seen from outside: whether it has a
\* container named "console", and whether that container's image reference
\* has a tag (a ":" with something, possibly nothing, after it).
ConsoleContainers ==
  { i \in 1..Len(deployment.Containers) : deployment.Containers[i].Name = "console" }
NoConsoleContainer == ConsoleContainers = {}
ConsoleImage ==
  deployment.Containers[CHOOSE i \in ConsoleContainers : \A j \in ConsoleContainers : i <= j].Image
HasTag(image) == \E i \in 1..Len(image) : image[i] = ":"
TagAbsent == ~NoConsoleContainer /\ ~HasTag(ConsoleImage)
TagEmptyAfterStripping ==
  ~NoConsoleContainer /\ HasTag(ConsoleImage) /\ Stripped(DeployedTag) = Empty

\* The pass gave up: OTHER_ERROR is the one status call, no command, no error.
GaveUp ==
  /\ StatusCalls # {}
  /\ \A i \in StatusCalls : trace[i].arg = "OTHER_ERROR"
  /\ EndsWithPhase("OTHER_ERROR")
  /\ Commands = {}
  /\ result = "nil"

\* The pass asked for a retry: an error, no status call, no command.
AskedForRetry ==
  /\ result = "error"
  /\ StatusCalls = {}
  /\ Commands = {}

C12_WitnessNoTag == Done /\ FoundDeployment /\ TagAbsent /\ result = "error"

\* C13: a pass that finds the Deployment with a "console" container whose
\* image tag is there but empty once a leading "v" is stripped returns an
\* error, writes no status and runs no command.
C13_EmptyTagAsksForRetry ==
  Done /\ FoundDeployment /\ TagEmptyAfterStripping => AskedForRetry

\* The tag "v" was found on the deployed container.
C13_Witness ==
  /\ Done /\ FoundDeployment /\ TagEmptyAfterStripping
  /\ DeployedTag = <<"v">>
  /\ err = "failed to read existing image tag"

\* ------------------------------------------------------------------ C14, C15

\* The lookup of what (the resource or the Deployment) answered with answer.
Lookup(what, answer) ==
  \E i \in Idx : trace[i].op = "get" /\ trace[i].arg = what /\ trace[i].out = answer

\* OTHER_ERROR is the one status call, the pass returns an error, no command.
ReportedAndRetried ==
  /\ StatusCalls # {}
  /\ \A i \in StatusCalls : trace[i].arg = "OTHER_ERROR"
  /\ EndsWithPhase("OTHER_ERROR")
  /\ result = "error"
  /\ Commands = {}

\* C14 as stated: a pass in which the lookup of the resource or the lookup of
\* the Deployment fails for another reason than not-found sets OTHER_ERROR,
\* then returns the error, and runs no command; for both lookups.
C14_LookupFailureIsReportedThenReturned ==
  Done /\ (Lookup("KWebUI", "error") \/ Lookup("Deployment", "error")) => ReportedAndRetried

\* C14 amended: a failed lookup of the Deployment sets OTHER_ERROR, then
\* returns the error, and runs no command; a failed lookup of the resource
\* returns the error with no status call at all, and runs no command.
C14_OnlyDeploymentLookupFailureIsReported ==
  Done =>
    /\ Lookup("Deployment", "error") => ReportedAndRetried /\ err = "get Deployment failed"
    /\ Lookup("KWebUI", "error") => AskedForRetry /\ err = "get KWebUI failed"

\* The Deployment lookup failed and OTHER_ERROR reached the resource.
C14_Witness ==
  Done /\ Lookup("Deployment", "error") /\ cr.Phase = "OTHER_ERROR" /\ result = "error"

C14_WitnessResource == Done /\ Lookup("KWebUI", "error") /\ result = "error"

\* C15: a pass for a resource that is not in the cluster (its lookup not
\* failing otherwise) is answered not found and ends with no error, and that
\* lookup is all it did: no status call, no lookup of the Deployment, no command.
C15_ResourceGoneEndsQuietly ==
  Done /\ ~cr.exists /\ ~Lookup("KWebUI", "error") =>
    /\ Lookup("KWebUI", "not found")
    /\ result = "nil"
    /\ StatusCalls = {}
    /\ ~\E a \in {"found", "not found", "error"} : Lookup("Deployment", a)
    /\ Commands = {}
    /\ Len(trace) = 1
    /\ cr = NoCR

\* The resource was deleted while its Deployment was still there.
C15_Witness == Done /\ Lookup("KWebUI", "not found") /\ dep.found

\* ------------------------------------------------------------------------ C16

\* The workflows the pass called, in order, and the workflow each command served.
IsWorkflow(e) == e.op = "workflow"
WorkflowCalls == LET w == SelectSeq(trace, IsWorkflow) IN [k \in 1..Len(w) |-> w[k].arg]
CommandsServe(acts) == \A i \in Commands : trace[i].msg \in acts

\* The four courses a pass can take.  A pass that deprovisions in order to
\* provision stops after a deprovision that failed.
ChoseNoOp == WorkflowCalls = <<>> /\ Commands = {}
ChoseProvision == WorkflowCalls = <<"provision">> /\ CommandsServe({"provision"})
ChoseDeprovision ==
  /\ WorkflowCalls = <<"deprovision">>
  /\ DesiredVersion = Empty
  /\ CommandsServe({"deprovision"})
ChoseDeprovisionThenProvision ==
  /\ DesiredVersion # Empty
  /\ CommandsServe({"deprovision", "provision"})
  /\ \/ WorkflowCalls = <<"deprovision", "provision">> /\ Succeeded("deprovision") # {}
     \/ WorkflowCalls = <<"deprovision">> /\ Failed("deprovision") # {}

ActionsChosen ==
  { a \in {"NoOp", "Provision", "Deprovision", "DeprovisionThenProvision"} :
      \/ a = "NoOp" /\ ChoseNoOp
      \/ a = "Provision" /\ ChoseProvision
      \/ a = "Deprovision" /\ ChoseDeprovision
      \/ a = "DeprovisionThenProvision" /\ ChoseDeprovisionThenProvision }

\* C16: every pass takes exactly one of the four courses NoOp, Provision,
\* Deprovision, DeprovisionThenProvision, whatever the lookups answered, the
\* desired version and the deployed image: never none of them, never two.
C16_ExactlyOneAction == Done => Cardinality(ActionsChosen) = 1

\* A pass that deprovisioned and went on to provision.
C16_Witness ==
  /\ Done
  /\ ActionsChosen = {"DeprovisionThenProvision"}
  /\ WorkflowCalls = <<"deprovision", "provision">>

\* ------------------------------------------------------------------------ C17

\* The drain loop of stream p has ended: it saw end-of-stream or a read error.
DrainEnded(p) == rc.drain[p] \in { "EOF", "read error" }

\* C17: in runCommand, once the orchestrator is at command.Wait() (waiting,
\* or past it with the pipes closed), both drain loops, of standard output
\* and of standard error, have ended with end-of-stream or a read error.
C17_DrainsEndBeforeWait ==
  rc.main \in { "Wait", "returned" } /\ rc.child # "not started" =>
    \A p \in Streams : DrainEnded(p)

\* ------------------------------------------------------------ C18, C19, C20

\* The calls of one runPlaybookWithSetup invocation: those after its call w
\* and before its return.
Returns == { i \in Idx : trace[i].op = "workflow return" }
ReturnOf(w) ==
  LET later == { i \in Returns : i > w }
  IN IF later = {} THEN Len(trace) + 1 ELSE CHOOSE i \in later : \A j \in later : i <= j
Segment(w) == { i \in Idx : w < i /\ i < ReturnOf(w) }
CommandsIn(w) == Commands \cap Segment(w)

\* A step of the workflow that failed: a command, InClusterConfig, the
\* creation of the inventory or its checked write.
CommandFailed(i) == trace[i].op = "cmd" /\ trace[i].out # "ok"
InventoryFailed(i) ==
  \/ trace[i].op = "create failed" /\ trace[i].arg = "inventory"
  \/ trace[i].op = "write" /\ trace[i].arg = "inventory" /\ trace[i].out = "failed"
StepFailed(i) ==
  \/ CommandFailed(i)
  \/ InventoryFailed(i)
  \/ trace[i].op = "InClusterConfig" /\ trace[i].out = "error"

\* The runPlaybookWithSetup call that call i of the trace comes after.
WorkflowOf(i) == Max({ w \in Workflows : w < i })

Rank(cmd) ==
  IF cmd = "oc login" THEN 1 ELSE IF cmd = "oc project" THEN 2 ELSE 3

C18_WitnessCutShort ==
  Done /\ \E w \in Workflows :
    /\ ReturnOf(w) \in Idx
    /\ Cardinality(CommandsIn(w)) = 1
    /\ \E i \in CommandsIn(w) : CommandFailed(i)

StartedPhase(act) == IF act = "provision" THEN "PROVISION_STARTED" ELSE "DEPROVISION_STARTED"
CompletionPhases(act) ==
  IF act = "provision" THEN { "PROVISIONED", "PROVISION_FAILED" }
  ELSE { "DEPROVISIONED", "DEPROVISION_FAILED" }

\* C19: for every provision or deprovision workflow, the updateStatus call
\* with the started phase of the action is the call right before the
\* workflow is entered (so before its first command), and once the pass has
\* returned, an updateStatus call with a completion phase of the same action
\* follows the workflow's return, before any other workflow.
C19_StartedBeforeCompletionAfter ==
  \A w \in Workflows :
    /\ w > 1
    /\ trace[w - 1].op = "status"
    /\ trace[w - 1].arg = StartedPhase(trace[w].arg)
    /\ trace[w - 1].out = "written" /\ w = Len(trace)
         => cr.Phase = StartedPhase(trace[w].arg)
    /\ Done =>
         /\ ReturnOf(w) \in Idx
         /\ \E s \in StatusCalls :
              /\ s > ReturnOf(w)
              /\ trace[s].arg \in CompletionPhases(trace[w].arg)
              /\ \A v \in Workflows : v <= w \/ v > s

\* A pass that deprovisioned and provisioned has returned.
C19_Witness ==
  /\ Done
  /\ WorkflowCalls = <<"deprovision", "provision">>
  /\ Commands # {}

C21_ProvisionedThenNoOp ==
  ref.run = 3 /\ ref.provisioned =>
    /\ Workflows = {}
    /\ Commands = {}
    /\ Done => result = "nil"

====
